---------------------------- MODULE Spec2Model ----------------------------
(***************************************************************************)
(* A model of the laravel-agent scripts:                                   *)
(*   scripts/laravel_agents_md.py        (version resolver, docs fetcher)  *)
(*   scripts/build_laravel_docs_index.py (overlay merger, indexer,         *)
(*                                        injector, index-builder CLI)     *)
(* Text is modelled by TLA+ strings; TLC evaluates Len, \o, SubSeq, Head   *)
(* and Tail on them, so every string operation below is computed on the    *)
(* characters, the way the Python code computes it.                        *)
(***************************************************************************)
EXTENDS Integers, Sequences, FiniteSets, TLC

VARIABLES
    constraint,   \* resolver: the argument of _extract_major_version
    version,      \* resolver: its return value (None when it returns None)
    vpc           \* resolver: "off" | "call" | "returned"

VARIABLES
    agents_text,  \* injector: the file text handed to the first injection
    index_text,   \* injector: the index text handed to both injections
    updated,      \* injector: outcome of _inject_index(agents_text, index_text)
    again,        \* injector: outcome of _inject_index(updated.text, index_text)
    ipc           \* injector: "off" | "call" | "once" | "twice" | "raised"

VARIABLES
    tool,         \* "index" (build_laravel_docs_index.py), "agents-md"
                  \* (laravel_agents_md.py), "build_and_inject_index" (the
                  \* function called on its own), "off"
    args,         \* the parsed command line
    composer,     \* composer.json: absent, invalid JSON, or its two constraints
    fs,           \* the file system below the project root
    fs0,          \* the file system when the run began
    pc,           \* the statement the run is at; "done" | "failed" at its end
    exit_msg,     \* the SystemExit message or the exception that ended the run
    docs_root,    \* local of main / _agents_md
    display_root, \* argument of build_and_inject_index ("" for None)
    entries,      \* local of build_and_inject_index
    scratch,      \* the TemporaryDirectory of _download_docs
    archive,      \* what the bytes of scratch's docs.zip hold
    merge_ret,    \* what _merge_extra_docs returned
    pre_merge,    \* the file system when _merge_extra_docs was called
    listed,       \* what --list-versions printed
    written       \* how many times AGENTS.md was written

rvars == <<constraint, version, vpc>>

ivars == <<agents_text, index_text, updated, again, ipc>>

inputs == <<tool, args, composer, fs0>>

cvars == <<inputs, fs, pc, exit_msg, docs_root, display_root, entries, scratch,
           archive, merge_ret, pre_merge, listed, written>>

(***************************************************************************)
(* Values of the variables before anything has run.                        *)
(***************************************************************************)
None == "None"

Returned(text) == [exc |-> "none", text |-> text]

Raised(exc) == [exc |-> exc, text |-> ""]

Dir == [dir |-> TRUE, data |-> ""]

File(data) == [dir |-> FALSE, data |-> data]

EmptyTree == [p \in {} |-> Dir]

NoScratch == [exists |-> FALSE, tree |-> EmptyTree]

NoArchive == [valid |-> FALSE, tree |-> EmptyTree]

NoComposer == [state |-> "absent", framework |-> "", laravel |-> ""]

\* --root: not given (None), or the path given; <<>> is the path "."
NoRoot == [given |-> FALSE, path |-> <<>>]

Root(path) == [given |-> TRUE, path |-> path]

NoArgs == [version |-> "", root |-> NoRoot, list_versions |-> FALSE, force |-> FALSE]

ResolverOff == constraint = "" /\ version = None /\ vpc = "off"

InjectorOff ==
    /\ agents_text = "" /\ index_text = ""
    /\ updated = Raised("off") /\ again = Raised("off") /\ ipc = "off"

CliOff ==
    /\ tool = "off" /\ args = NoArgs /\ composer = NoComposer
    /\ fs = EmptyTree /\ fs0 = EmptyTree /\ pc = "off" /\ exit_msg = ""
    /\ docs_root = <<>> /\ display_root = "" /\ entries = <<>>
    /\ scratch = NoScratch /\ archive = NoArchive
    /\ merge_ret = "not called" /\ pre_merge = EmptyTree
    /\ listed = <<>> /\ written = 0

(***************************************************************************)
(* Python string primitives.                                               *)
(***************************************************************************)
NL == "\n"

Ch(s, i) == SubSeq(s, i, i)

\* str.startswith / str.endswith
StartsWith(s, p) == Len(p) <= Len(s) /\ SubSeq(s, 1, Len(p)) = p

EndsWith(s, p) == Len(p) <= Len(s) /\ SubSeq(s, Len(s) - Len(p) + 1, Len(s)) = p

\* str.find, 1-based; 0 when p does not occur in s
Find(s, p) ==
    LET hits == {i \in 1..(Len(s) - Len(p) + 1) : SubSeq(s, i, i + Len(p) - 1) = p}
    IN  IF hits = {} THEN 0 ELSE CHOOSE i \in hits : \A j \in hits : i <= j

\* whether p occurs in s at position i
At(s, i, p) == i >= 1 /\ i + Len(p) - 1 <= Len(s) /\ SubSeq(s, i, i + Len(p) - 1) = p

\* the `in` operator on strings
Contains(s, p) == Find(s, p) # 0

\* str.split(sep, 1): one part when sep is absent, else two
Split1(s, sep) ==
    LET i == Find(s, sep)
    IN  IF i = 0 THEN <<s>>
        ELSE <<SubSeq(s, 1, i - 1), SubSeq(s, i + Len(sep), Len(s))>>

UpperLetters == "ABCDEFGHIJKLMNOPQRSTUVWXYZ"

LowerLetters == "abcdefghijklmnopqrstuvwxyz"

LowerChar(c) ==
    LET i == Find(UpperLetters, c)
    IN  IF i = 0 THEN c ELSE Ch(LowerLetters, i)

RECURSIVE Lower(_)
\* str.lower (ASCII)
Lower(s) == IF s = "" THEN "" ELSE LowerChar(Head(s)) \o Lower(Tail(s))

WhiteSpace == {" ", "\t", "\n", "\r"}

RECURSIVE LStripSet(_, _)
\* str.lstrip(chars)
LStripSet(s, chars) ==
    IF s # "" /\ Head(s) \in chars THEN LStripSet(Tail(s), chars) ELSE s

RECURSIVE RStripSet(_, _)
RStripSet(s, chars) ==
    IF s # "" /\ Ch(s, Len(s)) \in chars
    THEN RStripSet(SubSeq(s, 1, Len(s) - 1), chars)
    ELSE s

\* str.strip()
Strip(s) == RStripSet(LStripSet(s, WhiteSpace), WhiteSpace)

RECURSIVE Replace(_, _, _)
\* str.replace(old, new): every non-overlapping occurrence, left to right
Replace(s, old, new) ==
    IF Len(s) < Len(old) THEN s
    ELSE IF StartsWith(s, old)
         THEN new \o Replace(SubSeq(s, Len(old) + 1, Len(s)), old, new)
         ELSE Head(s) \o Replace(Tail(s), old, new)

Digits == {"0", "1", "2", "3", "4", "5", "6", "7", "8", "9"}

\* str.isdigit (ASCII): non-empty and every character a digit
IsDigit(s) == s # "" /\ \A i \in 1..Len(s) : Ch(s, i) \in Digits

\* re.search(r"(\d+)", s).group(1): the first maximal run of digits, None
\* when s holds no digit
FirstDigitRun(s) ==
    LET starts == {i \in 1..Len(s) : Ch(s, i) \in Digits}
    IN  IF starts = {} THEN None
        ELSE LET b == CHOOSE i \in starts : \A j \in starts : i <= j
                 ends == {e \in b..Len(s) :
                            /\ \A k \in b..e : Ch(s, k) \in Digits
                            /\ (e = Len(s) \/ Ch(s, e + 1) \notin Digits)}
                 e == CHOOSE x \in ends : TRUE
             IN  SubSeq(s, b, e)

(***************************************************************************)
(* Version Resolver (laravel_agents_md.py).                                *)
(***************************************************************************)
\* lines 41-43 without line 42: the development prefix stays
CleanedKeepingDevPrefix(c) == LStripSet(Lower(Strip(c)), {"v"})

\* lines 41-43: strip, lower, drop every "dev-", drop leading "v"s
Cleaned(c) == LStripSet(Replace(Lower(Strip(c)), "dev-", ""), {"v"})

\* lines 46 and 50 with the suffix cut off instead of the split at "."
MajorBeforeSuffix(cleaned) == SubSeq(cleaned, 1, Len(cleaned) - 2)

\* lines 46 and 50: the part of the cleaned string before its first "."
MajorOfSuffixed(cleaned) == Split1(cleaned, ".")[1]

_extract_major_version(c) ==
    IF c = "" THEN None
    ELSE LET cleaned == Cleaned(c)
         IN  IF EndsWith(cleaned, ".x")
             THEN LET major == MajorOfSuffixed(cleaned)
                  IN  IF IsDigit(major) THEN major \o ".x" ELSE None
             ELSE IF EndsWith(cleaned, ".*")
             THEN LET major == MajorOfSuffixed(cleaned)
                  IN  IF IsDigit(major) THEN major \o ".x" ELSE None
             ELSE LET major == FirstDigitRun(cleaned)
                  IN  IF major = None THEN None ELSE major \o ".x"

(***************************************************************************)
(* Bounded inputs of the resolver: the forms the source comments on, and   *)
(* every concatenation of at most MaxPieces pieces.                        *)
(***************************************************************************)
MaxPieces == 4

RecognizedForms == {"^8.75", "~8.1", "8.*", "8.x", "v8", "dev-8.x", ">=8.0 <9.0"}

ConstraintPieces == {"8", "1", ".", ".x", "*", "v", "dev-", " ", "X"}

RECURSIVE Concats(_, _)
Concats(pieces, n) ==
    IF n = 0 THEN {""}
    ELSE LET shorter == Concats(pieces, n - 1)
         IN  shorter \cup {s \o p : s \in shorter, p \in pieces}

Constraints == RecognizedForms \cup Concats(ConstraintPieces, MaxPieces)

InitResolve ==
    /\ constraint \in Constraints
    /\ version = None
    /\ vpc = "call"
    /\ InjectorOff
    /\ CliOff

ExtractMajorVersion ==
    /\ vpc = "call"
    /\ version' = _extract_major_version(constraint)
    /\ vpc' = "returned"
    /\ UNCHANGED <<constraint, ivars, cvars>>

(***************************************************************************)
(* Index Injector (build_laravel_docs_index.py).                           *)
(***************************************************************************)
START_MARKER == "<!-- LARAVEL_DOCS_INDEX_START -->"

END_MARKER == "<!-- LARAVEL_DOCS_INDEX_END -->"

\* lines 66-71 with the new block put in front of the old content instead of
\* in its place
_inject_index_keeping_old(agents_text_, index_text_) ==
    IF ~Contains(agents_text_, START_MARKER) \/ ~Contains(agents_text_, END_MARKER)
    THEN Raised("SystemExit")
    ELSE LET parts  == Split1(agents_text_, START_MARKER)
             before == parts[1]
             rest   == parts[2]
             tail   == Split1(rest, END_MARKER)
         IN  IF Len(tail) # 2 THEN Raised("ValueError")
             ELSE Returned(before \o START_MARKER \o NL \o index_text_ \o NL
                           \o tail[1] \o END_MARKER \o tail[2])

\* lines 66-71 with the text after the end marker left out of the result
_inject_index_dropping_after(agents_text_, index_text_) ==
    IF ~Contains(agents_text_, START_MARKER) \/ ~Contains(agents_text_, END_MARKER)
    THEN Raised("SystemExit")
    ELSE LET parts  == Split1(agents_text_, START_MARKER)
             before == parts[1]
             rest   == parts[2]
             tail   == Split1(rest, END_MARKER)
         IN  IF Len(tail) # 2 THEN Raised("ValueError")
             ELSE Returned(before \o START_MARKER \o NL \o index_text_ \o NL
                           \o END_MARKER)

\* lines 66-71.  `_, after = rest.split(END_MARKER, 1)` raises ValueError
\* when rest holds no end marker (the only end markers precede the first
\* start marker): split returns one part and the unpacking fails.
_inject_index(agents_text_, index_text_) ==
    IF ~Contains(agents_text_, START_MARKER) \/ ~Contains(agents_text_, END_MARKER)
    THEN Raised("SystemExit")
    ELSE LET parts  == Split1(agents_text_, START_MARKER)
             before == parts[1]
             rest   == parts[2]
             tail   == Split1(rest, END_MARKER)
         IN  IF Len(tail) # 2 THEN Raised("ValueError")
             ELSE Returned(before \o START_MARKER \o NL \o index_text_ \o NL
                           \o END_MARKER \o tail[2])

(***************************************************************************)
(* Bounded inputs of the injector: texts put together from whole markers,  *)
(* marker fragments and ordinary characters.                               *)
(***************************************************************************)
MaxFilePieces == 5

MaxIndexPieces == 1

FilePieces == {START_MARKER, END_MARKER, "x", "<!-- LARAVEL_DOCS_INDEX_"}

IndexPieces == {"|.:{a.md}", END_MARKER, START_MARKER}

InitInject ==
    /\ agents_text \in Concats(FilePieces, MaxFilePieces)
    /\ index_text \in Concats(IndexPieces, MaxIndexPieces)
    /\ updated = Raised("off")
    /\ again = Raised("off")
    /\ ipc = "call"
    /\ ResolverOff
    /\ CliOff

\* the first injection: it returns the new text or raises
InjectOnce ==
    /\ ipc = "call"
    /\ updated' = _inject_index(agents_text, index_text)
    /\ ipc' = IF updated'.exc = "none" THEN "once" ELSE "raised"
    /\ UNCHANGED <<agents_text, index_text, again, rvars, cvars>>

\* the same index injected into the text the first injection returned
InjectAgain ==
    /\ ipc = "once"
    /\ again' = _inject_index(updated.text, index_text)
    /\ ipc' = "twice"
    /\ UNCHANGED <<agents_text, index_text, updated, rvars, cvars>>

(***************************************************************************)
(* The file system: a function from paths (tuples of names, relative to    *)
(* the project root, which is also the working directory) to nodes.  A     *)
(* node is a directory or a regular file with its content.  The domain is  *)
(* prefix-closed and only directories have children.                       *)
(***************************************************************************)
IsPrefix(p, q) == Len(p) <= Len(q) /\ SubSeq(q, 1, Len(p)) = p

\* Path.exists / Path.is_dir; the project root itself always exists
Exists(t, p) == p = <<>> \/ p \in DOMAIN t

IsDir(t, p) == p = <<>> \/ (p \in DOMAIN t /\ t[p].dir)

\* Path.iterdir / os.scandir: the names in directory p
Listing(t, p) ==
    {q[Len(q)] : q \in {r \in DOMAIN t : Len(r) = Len(p) + 1 /\ IsPrefix(p, r)}}

\* shutil.rmtree(p) and Path.unlink(p): p and everything below it go
Remove(t, p) ==
    LET keep == {q \in DOMAIN t : ~IsPrefix(p, q)}
    IN  [q \in keep |-> t[q]]

\* the paths of t at or below p, relative to p (p itself is <<>>)
Below(t, p) ==
    {SubSeq(q, Len(p) + 1, Len(q)) : q \in {r \in DOMAIN t : IsPrefix(p, r)}}

\* the tree rooted at directory p, with paths relative to p
Subtree(t, p) ==
    LET rel == Below(t, p) \ {<<>>}
    IN  [q \in rel |-> t[p \o q]]

\* shutil.copy2(src, dst) for a regular file src and no directory at dst, and
\* shutil.copytree(src, dst, dirs_exist_ok=True) for a directory src with dst
\* absent or a directory: every node of `from` at or below src is written at
\* the same relative path below dst of t, over what is there.
CopyTree(from, src, t, dst) ==
    LET rel  == Below(from, src)
        made == {dst \o q : q \in rel} \ {<<>>}
    IN  [r \in DOMAIN t \cup made |->
            IF r \in made
            THEN LET q == src \o SubSeq(r, Len(dst) + 1, Len(r))
                 IN  IF q = <<>> THEN Dir ELSE from[q]
            ELSE t[r]]

CopyOver(t, src, dst) == CopyTree(t, src, t, dst)

\* Path.mkdir(parents=True, exist_ok=True) of a path of one name
MkDir(t, p) == IF p \in DOMAIN t THEN t ELSE [r \in DOMAIN t \cup {p} |->
                                                IF r = p THEN Dir ELSE t[r]]

\* Path.write_text, open(p, "wb"): the file at p is created or replaced
WriteFile(t, p, data) ==
    [r \in DOMAIN t \cup {p} |-> IF r = p THEN File(data) ELSE t[r]]

\* tree `sub` placed at path p of t (p becomes a directory)
Mount(t, p, sub) ==
    [r \in DOMAIN t \cup {p} \cup {p \o q : q \in DOMAIN sub} |->
        IF r = p THEN Dir
        ELSE IF IsPrefix(p, r) THEN sub[SubSeq(r, Len(p) + 1, Len(r))]
        ELSE t[r]]

DOCS_ROOT == <<".laravel-docs">>

EXTRA_DOCS_ROOT == <<".laravel-docs-extra">>

AGENTS_PATH == <<"AGENTS.md">>

(***************************************************************************)
(* Overlay Merger (build_laravel_docs_index.py, _merge_extra_docs).        *)
(***************************************************************************)
\* lines 40-49 with an entry the destination already has left as it is
MergeEntryKeepingExisting(t, docs_root_, name) ==
    LET entry       == EXTRA_DOCS_ROOT \o <<name>>
        destination == docs_root_ \o <<name>>
    IN  IF Exists(t, destination) THEN t ELSE CopyOver(t, entry, destination)

\* lines 40-49 without the removal of lines 42-46: the entry is copied into
\* what the destination holds
MergeEntryIntoExisting(t, docs_root_, name) ==
    LET entry       == EXTRA_DOCS_ROOT \o <<name>>
        destination == docs_root_ \o <<name>>
        cleared     == IF Exists(t, destination) /\ ~t[destination].dir
                       THEN Remove(t, destination) ELSE t
    IN  CopyOver(cleared, entry, destination)

\* lines 40-49, one top-level entry of the overlay
MergeEntry(t, docs_root_, name) ==
    LET entry       == EXTRA_DOCS_ROOT \o <<name>>
        destination == docs_root_ \o <<name>>
        cleared     == IF Exists(t, destination) THEN Remove(t, destination) ELSE t
    IN  CopyOver(cleared, entry, destination)

RECURSIVE MergeEntries(_, _, _)
\* line 39: the loop over EXTRA_DOCS_ROOT.iterdir(); the entries have
\* different names, so their order does not matter
MergeEntries(t, docs_root_, names) ==
    IF names = {} THEN t
    ELSE LET name == CHOOSE n \in names : TRUE
         IN  MergeEntries(MergeEntry(t, docs_root_, name), docs_root_, names \ {name})

\* lines 36-50: the tree after the merge and the value returned
_merge_extra_docs(t, docs_root_) ==
    IF ~Exists(t, EXTRA_DOCS_ROOT)
    THEN [fs |-> t, ret |-> FALSE]
    ELSE [fs |-> MergeEntries(t, docs_root_, Listing(t, EXTRA_DOCS_ROOT)), ret |-> TRUE]

(***************************************************************************)
(* Doc Indexer (build_laravel_docs_index.py, _iter_docs and _build_index). *)
(***************************************************************************)
\* the printable ASCII characters in code point order: 32 to 95, 97 to 126
AsciiLow ==
    " !\"#$%&'()*+,-./0123456789:;<=>?@ABCDEFGHIJKLMNOPQRSTUVWXYZ[\\]^_"

AsciiHigh == "abcdefghijklmnopqrstuvwxyz{|}~"

\* ord(c)
Code(c) ==
    IF Contains(AsciiLow, c) THEN Find(AsciiLow, c) + 31 ELSE Find(AsciiHigh, c) + 96

RECURSIVE StrLess(_, _)
\* Python's < on str: by code point, a proper prefix first
StrLess(a, b) ==
    IF b = "" THEN FALSE
    ELSE IF a = "" THEN TRUE
    ELSE IF Head(a) = Head(b) THEN StrLess(Tail(a), Tail(b))
    ELSE Code(Head(a)) < Code(Head(b))

RECURSIVE InsertByKey(_, _)
InsertByKey(seq, x) ==
    IF seq = <<>> THEN <<x>>
    ELSE IF StrLess(x.key, Head(seq).key) THEN <<x>> \o seq
    ELSE <<Head(seq)>> \o InsertByKey(Tail(seq), x)

RECURSIVE SortedByKey(_)
\* sorted(items, key=lambda item: item.key): a stable ascending sort
SortedByKey(seq) ==
    IF seq = <<>> THEN <<>>
    ELSE InsertByKey(SortedByKey(SubSeq(seq, 1, Len(seq) - 1)), seq[Len(seq)])

\* sorted(strings)
Sorted(seq) ==
    LET keyed  == [i \in 1..Len(seq) |-> [key |-> seq[i]]]
        sorted == SortedByKey(keyed)
    IN  [i \in 1..Len(seq) |-> sorted[i].key]

RECURSIVE Join(_, _)
\* sep.join(seq)
Join(sep, seq) ==
    IF seq = <<>> THEN ""
    ELSE IF Len(seq) = 1 THEN seq[1]
    ELSE seq[1] \o sep \o Join(sep, Tail(seq))

SkippedDirs == {".git", "node_modules", ".idea", ".vscode"}

Orders(S) ==
    {f \in [1..Cardinality(S) -> S] : \A i, j \in 1..Cardinality(S) : i # j => f[i] # f[j]}

RECURSIVE WalkFrom(_, _, _)
RECURSIVE WalkAll(_, _, _, _)
\* os.walk(root), top-down, with line 22's pruning of dirnames: every order
\* in which the walk can yield (directory, filenames); a directory's names
\* come in the order the operating system lists them, which is arbitrary
WalkFrom(t, root, rel) ==
    LET here     == root \o rel
        names    == Listing(t, here)
        dirnames == {n \in names : t[here \o <<n>>].dir}
        files    == names \ dirnames
        descend  == {n \in dirnames : n \notin SkippedDirs}
    IN  {<<[rel |-> rel, filenames |-> fo]>> \o rest :
            fo \in Orders(files),
            rest \in UNION {WalkAll(t, root, rel, order) : order \in Orders(descend)}}

\* the walks of the subdirectories `order` of rel, one after the other
WalkAll(t, root, rel, order) ==
    IF order = <<>> THEN {<<>>}
    ELSE {first \o others :
            first \in WalkFrom(t, root, rel \o <<order[1]>>),
            others \in WalkAll(t, root, rel, Tail(order))}

IsDocFile(f) == EndsWith(Lower(f), ".md") \/ EndsWith(Lower(f), ".mdx")

\* lines 24-28
DocFiles(filenames) == Sorted(SelectSeq(filenames, IsDocFile))

\* line 31
EntryKey(rel) == IF rel = <<>> THEN "." ELSE Join("/", rel)

\* line 33 returning the dict in insertion order
EntriesAsCollected(entries_) == entries_

\* line 33: dict(sorted(entries.items(), key=lambda item: item[0]))
SortEntries(entries_) == SortedByKey(entries_)

RECURSIVE CollectEntries(_)
\* lines 20-32: the dict in insertion order, one item per directory that
\* holds doc files
CollectEntries(walk) ==
    IF walk = <<>> THEN <<>>
    ELSE LET doc_files == DocFiles(Head(walk).filenames)
         IN  (IF doc_files = <<>> THEN <<>>
              ELSE <<[key |-> EntryKey(Head(walk).rel), files |-> doc_files]>>)
             \o CollectEntries(Tail(walk))

\* lines 18-33
_iter_docs(walk) == SortEntries(CollectEntries(walk))

HeaderLabel == "[Laravel Docs Index]"

Guidance ==
    "IMPORTANT: Prefer retrieval-led reasoning over pre-training-led reasoning for any Laravel tasks."

RECURSIVE EntryLines(_)
EntryLines(entries_) ==
    IF entries_ = <<>> THEN <<>>
    ELSE <<"|" \o Head(entries_).key \o ":{" \o Join(",", Head(entries_).files) \o "}">>
         \o EntryLines(Tail(entries_))

\* lines 53-63
_build_index(entries_, root_display) ==
    Join(NL, <<Join("|", <<HeaderLabel, "root: " \o root_display, Guidance>>)>>
             \o EntryLines(entries_))

\* Path.as_posix: the names joined by "/", "." for the empty path
AsPosix(path) == IF path = <<>> THEN "." ELSE Join("/", path)

\* lines 95-99
_display_root(docs_root_) ==
    LET root_display == AsPosix(docs_root_)
    IN  IF ~StartsWith(root_display, "./") /\ ~StartsWith(root_display, "/")
        THEN "./" \o root_display
        ELSE root_display

(***************************************************************************)
(* Bounded file trees: every tree of at most n nodes over the names.       *)
(***************************************************************************)
\* t with one more node: a file or an empty directory in one of its directories
Extensions(t, names, data) ==
    {[r \in DOMAIN t \cup {pn} |-> IF r = pn THEN node ELSE t[r]] :
        pn \in {q \o <<n>> : q \in {<<>>} \cup {d \in DOMAIN t : t[d].dir}, n \in names}
               \ DOMAIN t,
        node \in {Dir, File(data)}}

Grow(trees, names, data) == trees \cup UNION {Extensions(t, names, data) : t \in trees}

RECURSIVE TreesUpTo(_, _, _)
TreesUpTo(n, names, data) ==
    IF n = 0 THEN {EmptyTree}
    ELSE LET smaller == TreesUpTo(n - 1, names, data)
         IN  Grow(smaller, names, data)

(***************************************************************************)
(* The two command-line tools, one action per statement that reads or       *)
(* writes the world.  A run ends at pc = "done" (exit status 0) or at        *)
(* pc = "failed" with the SystemExit message or the uncaught exception.      *)
(***************************************************************************)
DOCS_BASE == <<".laravel-docs">>

\* tempfile.TemporaryDirectory.__exit__ (line 91): the directory and all it
\* holds are removed, when the block returns and when it raises
ScratchAfterReturn(s) == NoScratch

\* a scratch directory made with mkdtemp and removed only on the way out of a
\* successful block
ScratchLeftBehind(s) == s

ScratchAfterRaise(s) == NoScratch

ParkedLocals ==
    /\ display_root = "" /\ entries = <<>>
    /\ scratch = NoScratch /\ archive = NoArchive
    /\ merge_ret = "not called" /\ pre_merge = EmptyTree
    /\ listed = <<>> /\ written = 0 /\ exit_msg = ""
    /\ agents_text = "" /\ index_text = ""
    /\ updated = Raised("off") /\ again = Raised("off") /\ ipc = "off"
    /\ constraint = "" /\ version = None /\ vpc = "off"

Fail(msg) == pc' = "failed" /\ exit_msg' = msg

\* ---- build_laravel_docs_index.py: main ----

\* lines 84-92
_list_versions(t, base) ==
    IF ~Exists(t, base) THEN <<>>
    ELSE LET names == {n \in Listing(t, base) :
                         t[base \o <<n>>].dir /\ ~StartsWith(n, ".")}
         IN  Sorted(CHOOSE order \in Orders(names) : TRUE)

\* lines 127-135
ListVersions ==
    /\ pc = "main" /\ tool = "index" /\ args.list_versions
    /\ listed' = _list_versions(fs, DOCS_ROOT)
    /\ pc' = "done"
    /\ UNCHANGED <<inputs, fs, exit_msg, docs_root, display_root, entries, scratch,
                   archive, merge_ret, pre_merge, written, rvars, ivars>>

\* lines 74-81
_resolve_root(version_, root) ==
    IF version_ # "" /\ root.given THEN [exc |-> "SystemExit", path |-> <<>>]
    ELSE IF version_ # "" THEN [exc |-> "none", path |-> DOCS_ROOT \o <<version_>>]
    ELSE IF root.given THEN [exc |-> "none", path |-> root.path]
    ELSE [exc |-> "none", path |-> DOCS_ROOT]

\* lines 137-141
ResolveRoot ==
    /\ pc = "main" /\ tool = "index" /\ ~args.list_versions
    /\ LET resolved == _resolve_root(args.version, args.root)
       IN  IF resolved.exc # "none"
           THEN Fail("Use either --version or --root, not both.") /\ UNCHANGED docs_root
           ELSE /\ docs_root' = resolved.path
                /\ IF ~Exists(fs, resolved.path)
                   THEN Fail("Docs root not found")
                   ELSE pc' = "merge_extra_docs" /\ UNCHANGED exit_msg
    /\ UNCHANGED <<inputs, fs, display_root, entries, scratch, archive, merge_ret, pre_merge,
                   listed, written, rvars, ivars>>

\* ---- laravel_agents_md.py: main ----

\* lines 27-33 and 60-66: the constraint composer.json declares, "" for none
DeclaredConstraint ==
    IF composer.state # "ok" THEN ""
    ELSE IF composer.framework # "" THEN composer.framework ELSE composer.laravel

\* lines 152-157, with _normalize_version (69-73), _read_composer (27-33) and
\* _detect_version_from_composer (60-66)
ResolveVersion ==
    /\ pc = "main" /\ tool = "agents-md"
    /\ IF args.version # ""
       THEN /\ constraint' = args.version
            /\ version' = _extract_major_version(args.version)
            /\ IF version' = None
               THEN Fail("Unable to parse version")
               ELSE pc' = "ensure_docs_dir" /\ UNCHANGED exit_msg
       ELSE IF composer.state = "invalid"
       THEN Fail("Invalid composer.json") /\ UNCHANGED <<constraint, version>>
       ELSE /\ constraint' = DeclaredConstraint
            /\ version' = _extract_major_version(DeclaredConstraint)
            /\ IF version' = None
               THEN Fail("Unable to detect Laravel version from composer.json.")
               ELSE pc' = "ensure_docs_dir" /\ UNCHANGED exit_msg
    /\ UNCHANGED <<inputs, fs, docs_root, display_root, entries, scratch, archive, merge_ret,
                   pre_merge, listed, written, vpc, ivars>>

\* lines 76-86 without the guard of lines 77-78
_ensure_docs_dir_unguarded(t, force) ==
    LET cleared == IF Exists(t, DOCS_BASE) /\ force THEN Remove(t, DOCS_BASE) ELSE t
    IN  [exc |-> "none", fs |-> MkDir(cleared, DOCS_BASE)]

\* lines 76-86: the tree it leaves and whether it raised
_ensure_docs_dir(t, force) ==
    IF Exists(t, DOCS_BASE) /\ ~force /\ Listing(t, DOCS_BASE) # {}
    THEN [exc |-> "SystemExit", fs |-> t]
    ELSE LET cleared == IF Exists(t, DOCS_BASE) /\ force THEN Remove(t, DOCS_BASE) ELSE t
         IN  [exc |-> "none", fs |-> MkDir(cleared, DOCS_BASE)]

\* line 129
EnsureDocsDir ==
    /\ pc = "ensure_docs_dir"
    /\ LET r == _ensure_docs_dir(fs, args.force)
       IN  /\ fs' = r.fs
           /\ IF r.exc # "none"
              THEN Fail("Docs already exist. Use --force to overwrite.") /\ UNCHANGED docs_root
              ELSE pc' = "urlopen" /\ docs_root' = DOCS_BASE /\ UNCHANGED exit_msg
    /\ UNCHANGED <<inputs, display_root, entries, scratch, archive, merge_ret, pre_merge,
                   listed, written, rvars, ivars>>

\* what the remote can answer: nothing, or an archive
FetchedDocs ==
    [p \in {<<"readme.md">>, <<"guide">>, <<"guide", "a.md">>} |->
        IF p = <<"guide">> THEN Dir ELSE File("fetched")]

Archives ==
    {[valid |-> FALSE, tree |-> EmptyTree],
     [valid |-> TRUE,  tree |-> Mount(EmptyTree, <<"docs-8.x">>, FetchedDocs)],
     [valid |-> TRUE,  tree |-> Mount(EmptyTree, <<"docs-9.x">>, FetchedDocs)],
     [valid |-> TRUE,  tree |-> Mount(EmptyTree, <<"docs-8.x">>, EmptyTree)]}

\* lines 91-99: the scratch directory is made and the answer is written to
\* its docs.zip; when the transfer fails the file may or may not have been made
Urlopen ==
    /\ pc = "urlopen"
    /\ \/ \E answer \in Archives :
             /\ scratch' = [exists |-> TRUE,
                            tree |-> WriteFile(EmptyTree, <<"docs.zip">>, "bytes")]
             /\ archive' = answer
             /\ pc' = "extractall"
             /\ UNCHANGED exit_msg
       \/ \E partial \in BOOLEAN :
             /\ scratch' = ScratchAfterRaise(
                              [exists |-> TRUE,
                               tree |-> IF partial
                                        THEN WriteFile(EmptyTree, <<"docs.zip">>, "")
                                        ELSE EmptyTree])
             /\ Fail("Failed to download docs")
             /\ UNCHANGED archive
    /\ UNCHANGED <<inputs, fs, docs_root, display_root, entries, merge_ret, pre_merge,
                   listed, written, rvars, ivars>>

\* lines 101-105: docs.zip is opened and extracted into the scratch directory
Extractall ==
    /\ pc = "extractall"
    /\ IF ~archive.valid
       THEN /\ scratch' = ScratchAfterRaise(scratch)
            /\ Fail("Downloaded zip is invalid")
       ELSE /\ scratch' = [exists |-> TRUE,
                           tree |-> CopyTree(archive.tree, <<>>, scratch.tree, <<>>)]
            /\ pc' = "copytree"
            /\ UNCHANGED exit_msg
    /\ UNCHANGED <<inputs, fs, docs_root, display_root, entries, archive, merge_ret,
                   pre_merge, listed, written, rvars, ivars>>

\* lines 107-115 and 131: the extracted folder is copied into the docs
\* directory and the scratch directory is left
Copytree ==
    /\ pc = "copytree"
    /\ LET extracted_root == <<"docs-" \o version>>
       IN  IF ~Exists(scratch.tree, extracted_root)
           THEN /\ scratch' = ScratchAfterRaise(scratch)
                /\ Fail("Unexpected zip structure.")
                /\ UNCHANGED <<fs, display_root>>
           ELSE /\ fs' = CopyTree(scratch.tree, extracted_root, fs, docs_root)
                /\ scratch' = ScratchAfterReturn(scratch)
                /\ display_root' = "./" \o AsPosix(docs_root)
                /\ pc' = "merge_extra_docs"
                /\ UNCHANGED exit_msg
    /\ UNCHANGED <<inputs, docs_root, entries, archive, merge_ret, pre_merge,
                   listed, written, rvars, ivars>>

\* ---- build_and_inject_index (build_laravel_docs_index.py, 102-111) ----

\* line 103
MergeExtraDocs ==
    /\ pc = "merge_extra_docs"
    /\ LET r == _merge_extra_docs(fs, docs_root)
       IN  /\ fs' = r.fs
           /\ merge_ret' = IF r.ret THEN "True" ELSE "False"
    /\ pre_merge' = fs
    /\ pc' = "iter_docs"
    /\ UNCHANGED <<inputs, exit_msg, docs_root, display_root, entries, scratch,
                   archive, listed, written, rvars, ivars>>

\* lines 104-106: the walk yields the directories in one of its orders
IterDocs ==
    /\ pc = "iter_docs"
    /\ \E walk \in WalkFrom(fs, docs_root, <<>>) :
          /\ entries' = _iter_docs(walk)
          /\ IF entries' = <<>>
             THEN Fail("No .md or .mdx docs found")
             ELSE pc' = "build_index" /\ UNCHANGED exit_msg
    /\ UNCHANGED <<inputs, fs, docs_root, display_root, scratch, archive, merge_ret,
                   pre_merge, listed, written, rvars, ivars>>

\* line 108
BuildIndex ==
    /\ pc = "build_index"
    /\ index_text' = _build_index(entries, IF display_root # "" THEN display_root
                                           ELSE _display_root(docs_root))
    /\ pc' = "read_text"
    /\ UNCHANGED <<inputs, fs, exit_msg, docs_root, display_root, entries, scratch,
                   archive, merge_ret, pre_merge, listed, written, rvars,
                   agents_text, updated, again, ipc>>

\* line 109
ReadText ==
    /\ pc = "read_text"
    /\ IF Exists(fs, AGENTS_PATH) /\ ~fs[AGENTS_PATH].dir
       THEN agents_text' = fs[AGENTS_PATH].data /\ pc' = "inject_index" /\ UNCHANGED exit_msg
       ELSE Fail("FileNotFoundError") /\ UNCHANGED agents_text
    /\ UNCHANGED <<inputs, fs, docs_root, display_root, entries, scratch, archive, merge_ret,
                   pre_merge, listed, written, rvars, index_text, updated, again, ipc>>

\* line 110 run with AGENTS.md already opened for writing, which empties it
InjectIndexIntoOpenedFile ==
    /\ pc = "inject_index"
    /\ updated' = _inject_index(agents_text, index_text)
    /\ fs' = WriteFile(fs, AGENTS_PATH, "")
    /\ IF updated'.exc = "none"
       THEN pc' = "write_text" /\ UNCHANGED exit_msg
       ELSE Fail(IF updated'.exc = "SystemExit"
                 THEN "AGENTS.md is missing index markers." ELSE updated'.exc)
    /\ UNCHANGED <<inputs, docs_root, display_root, entries, scratch, archive, merge_ret,
                   pre_merge, listed, written, rvars, agents_text, index_text, again, ipc>>

\* line 110
InjectIndex ==
    /\ pc = "inject_index"
    /\ updated' = _inject_index(agents_text, index_text)
    /\ IF updated'.exc = "none"
       THEN pc' = "write_text" /\ UNCHANGED exit_msg
       ELSE Fail(IF updated'.exc = "SystemExit"
                 THEN "AGENTS.md is missing index markers." ELSE updated'.exc)
    /\ UNCHANGED <<inputs, fs, docs_root, display_root, entries, scratch, archive, merge_ret,
                   pre_merge, listed, written, rvars, agents_text, index_text, again, ipc>>

\* line 111, and the return to the caller, which only prints
WriteText ==
    /\ pc = "write_text"
    /\ fs' = WriteFile(fs, AGENTS_PATH, updated.text)
    /\ written' = written + 1
    /\ pc' = "done"
    /\ UNCHANGED <<inputs, exit_msg, docs_root, display_root, entries, scratch,
                   archive, merge_ret, pre_merge, listed, rvars, ivars>>

(***************************************************************************)
(* The worlds the tools are started in.                                    *)
(***************************************************************************)
\* the tree that holds the given files (path, content) and their directories
TreeOf(files) ==
    LET paths == {f[1] : f \in files}
        dirs  == UNION {{SubSeq(q, 1, k) : k \in 1..(Len(q) - 1)} : q \in paths}
    IN  [p \in dirs \cup paths |->
            IF p \in dirs THEN Dir ELSE File((CHOOSE f \in files : f[1] = p)[2])]

\* what .laravel-docs holds at the start
DocsSamples ==
    {EmptyTree,
     TreeOf({<<<<"image.png">>, "png">>}),
     TreeOf({<<<<"readme.md">>, "old">>, <<<<"guide", "a.md">>, "old">>,
             <<<<"guide", "b.mdx">>, "old">>}),
     TreeOf({<<<<"8.x", "readme.md">>, "old">>, <<<<"8.x", "guide", "a.md">>, "old">>,
             <<<<"9.x", "image.png">>, "png">>, <<<<".cache", "x">>, "">>})}

\* what .laravel-docs-extra holds at the start
ExtraSamples ==
    {EmptyTree,
     TreeOf({<<<<"guide", "a.md">>, "extra">>}),
     TreeOf({<<<<"readme.md">>, "extra">>, <<<<"8.x", "team.md">>, "extra">>}),
     TreeOf({<<<<"AGENTS.md">>, "# Overlay">>})}

AgentsSamples ==
    {"# Agents" \o NL \o START_MARKER \o NL \o "old index" \o NL \o END_MARKER \o NL \o "tail",
     "# Agents" \o NL \o START_MARKER \o NL,
     END_MARKER \o NL \o START_MARKER,
     "# Agents"}

Absent == [present |-> FALSE, tree |-> EmptyTree, text |-> ""]

Present(tree, text) == [present |-> TRUE, tree |-> tree, text |-> text]

\* the project directory with the given .laravel-docs, .laravel-docs-extra
\* and AGENTS.md
World(d, e, a) ==
    LET withDocs  == IF d.present THEN Mount(EmptyTree, DOCS_ROOT, d.tree) ELSE EmptyTree
        withExtra == IF e.present THEN Mount(withDocs, EXTRA_DOCS_ROOT, e.tree) ELSE withDocs
    IN  IF a.present THEN WriteFile(withExtra, AGENTS_PATH, a.text) ELSE withExtra

Worlds ==
    {World(d, e, a) :
        d \in {Absent} \cup {Present(t, "") : t \in DocsSamples},
        e \in {Absent} \cup {Present(t, "") : t \in ExtraSamples},
        a \in {Absent} \cup {Present(EmptyTree, t) : t \in AgentsSamples}}

Composers ==
    {NoComposer,
     [state |-> "invalid", framework |-> "", laravel |-> ""],
     [state |-> "ok", framework |-> "", laravel |-> ""],
     [state |-> "ok", framework |-> "^8.75", laravel |-> "dev-9.x"],
     [state |-> "ok", framework |-> "", laravel |-> "v9"]}

IndexArgs ==
    [version : {"", "8.x"},
     root : {NoRoot, Root(<<".laravel-docs", "8.x">>), Root(<<"missing">>), Root(<<>>)},
     list_versions : BOOLEAN, force : {FALSE}]

AgentsMdArgs ==
    [version : {"", "v8", "latest"}, root : {NoRoot}, list_versions : {FALSE}, force : BOOLEAN]

Init ==
    /\ \/ tool = "index" /\ args \in IndexArgs /\ composer = NoComposer
       \/ /\ tool = "agents-md" /\ args \in AgentsMdArgs /\ composer \in Composers
          /\ args.version # "" => composer = NoComposer
    /\ fs \in Worlds
    /\ fs0 = fs
    /\ pc = "main"
    /\ docs_root = <<>>
    /\ ParkedLocals

\* build_and_inject_index(DOCS_ROOT) called in every small world
MaxDocsNodes == 2

MaxExtraNodes == 2

DocsNames == {"A.MDX", "c.png"}

ExtraNames == {"-b.md", "A.MDX"}

InitTree ==
    /\ tool = "build_and_inject_index"
    /\ args = NoArgs
    /\ composer = NoComposer
    /\ fs \in {World(Present(d, ""), e, Present(EmptyTree, START_MARKER \o END_MARKER)) :
                 d \in TreesUpTo(MaxDocsNodes, DocsNames, "fetched"),
                 e \in {Absent} \cup {Present(t, "") :
                                        t \in TreesUpTo(MaxExtraNodes, ExtraNames, "extra")}}
    /\ fs0 = fs
    /\ pc = "merge_extra_docs"
    /\ docs_root = DOCS_ROOT
    /\ ParkedLocals

vars == <<rvars, ivars, cvars>>

NextResolve == ExtractMajorVersion

SpecResolve == InitResolve /\ [][NextResolve]_vars

NextInject == InjectOnce \/ InjectAgain

SpecInject == InitInject /\ [][NextInject]_vars

NextTree ==
    \/ MergeExtraDocs
    \/ IterDocs
    \/ BuildIndex
    \/ ReadText
    \/ InjectIndex
    \/ WriteText

SpecTree == InitTree /\ [][NextTree]_vars

Next ==
    \/ ListVersions
    \/ ResolveRoot
    \/ ResolveVersion
    \/ EnsureDocsDir
    \/ Urlopen
    \/ Extractall
    \/ Copytree
    \/ MergeExtraDocs
    \/ IterDocs
    \/ BuildIndex
    \/ ReadText
    \/ InjectIndex
    \/ WriteText

Spec == Init /\ [][Next]_vars

(***************************************************************************)
(* Claims about the Version Resolver, checked under SpecResolve.           *)
(***************************************************************************)
\* C7: each of the recognized constraint forms ^8.75, ~8.1, 8.*, 8.x, v8,
\* dev-8.x and >=8.0 <9.0 resolves to exactly "8.x".
C7_RecognizedFormsResolve ==
    (vpc = "returned" /\ constraint \in RecognizedForms) => version = "8.x"

C7_Witness ==
    vpc = "returned" /\ constraint = ">=8.0 <9.0" /\ version = "8.x"

Suffixed(cleaned) == EndsWith(cleaned, ".x") \/ EndsWith(cleaned, ".*")

\* C8 as stated: when the cleaned constraint ends with .x or .*, the major
\* version is the whole substring before that suffix, and the resolution
\* succeeds only if that whole substring is all digits (8.1.x fails).
C8_MajorIsWholePrefix ==
    (vpc = "returned" /\ constraint # "") =>
        LET cleaned == Cleaned(constraint)
            whole   == SubSeq(cleaned, 1, Len(cleaned) - 2)
        IN  Suffixed(cleaned) =>
                version = IF IsDigit(whole) THEN whole \o ".x" ELSE None

\* C8 amended: when the cleaned constraint ends with .x or .*, the major
\* version is the part of the cleaned string before its FIRST ".", and the
\* resolution succeeds exactly when that part is a non-empty run of digits
\* (so 8.1.x resolves to 8.x).
C8_MajorIsUpToFirstDot ==
    (vpc = "returned" /\ constraint # "") =>
        LET cleaned == Cleaned(constraint)
            dot     == CHOOSE i \in 1..Len(cleaned) :
                          /\ Ch(cleaned, i) = "."
                          /\ \A j \in 1..(i - 1) : Ch(cleaned, j) # "."
            first   == SubSeq(cleaned, 1, dot - 1)
        IN  Suffixed(cleaned) =>
                /\ IsDigit(first) => version = first \o ".x"
                /\ ~IsDigit(first) => version = None

C8_Witness ==
    vpc = "returned" /\ constraint = "8.1.x" /\ version = "8.x"

(***************************************************************************)
(* Claims about the Index Injector, checked under SpecInject.              *)
(***************************************************************************)
\* C1 as stated: for every file text that contains both markers and every
\* index text, injecting the same index a second time returns the text the
\* first injection returned, byte for byte.
C1_Idempotent ==
    ipc = "twice" => again = updated

\* C1 amended: the same, for every index text that does not contain the end
\* marker (and every file text whose first start marker is followed by an
\* end marker, the texts on which the first injection returns at all).
C1_IdempotentWithoutEndMarkerInIndex ==
    (ipc = "twice" /\ ~Contains(index_text, END_MARKER)) => again = updated

C1_Witness ==
    /\ ipc = "twice"
    /\ ~Contains(index_text, END_MARKER)
    /\ index_text # ""
    /\ again = updated
    /\ updated.text # agents_text

\* every way of writing text as before + START_MARKER + old + END_MARKER + after
Decompositions(text) ==
    LET starts == {i \in 1..Len(text) : At(text, i, START_MARKER)}
        ends   == {j \in 1..Len(text) : At(text, j, END_MARKER)}
    IN  {d \in starts \X ends : d[2] >= d[1] + Len(START_MARKER)}

BeforeOf(text, d) == SubSeq(text, 1, d[1] - 1)

AfterOf(text, d) == SubSeq(text, d[2] + Len(END_MARKER), Len(text))

\* C2 as stated: for every file text before + START_MARKER + old +
\* END_MARKER + after and every index text, the injection returns a text
\* that starts with before and ends with after, whatever old was.
C2_OutsidePreserved ==
    ipc \in {"once", "twice", "raised"} =>
        \A d \in Decompositions(agents_text) :
            /\ updated.exc = "none"
            /\ StartsWith(updated.text, BeforeOf(agents_text, d))
            /\ EndsWith(updated.text, AfterOf(agents_text, d))

\* C2 amended: the same, for the decompositions whose `before` does not
\* contain the start marker (the split is at the FIRST start marker).
C2_OutsidePreservedFirstStart ==
    ipc \in {"once", "twice", "raised"} =>
        \A d \in Decompositions(agents_text) :
            ~Contains(BeforeOf(agents_text, d), START_MARKER) =>
                /\ updated.exc = "none"
                /\ StartsWith(updated.text, BeforeOf(agents_text, d))
                /\ EndsWith(updated.text, AfterOf(agents_text, d))

C2_Witness ==
    /\ ipc = "once"
    /\ \E d \in Decompositions(agents_text) :
          /\ BeforeOf(agents_text, d) # ""
          /\ AfterOf(agents_text, d) # ""
          /\ ~Contains(BeforeOf(agents_text, d), START_MARKER)
          /\ d[2] > d[1] + Len(START_MARKER)
    /\ index_text # ""
    /\ updated.text # agents_text

(***************************************************************************)
(* Claims about the Overlay Merger and the Doc Indexer, checked under      *)
(* SpecTree.                                                               *)
(***************************************************************************)
MergeCalled == merge_ret # "not called"

\* the regular files of the overlay, relative to the overlay root
OverlayFiles(t) ==
    {q \in Below(t, EXTRA_DOCS_ROOT) \ {<<>>} : ~t[EXTRA_DOCS_ROOT \o q].dir}

\* C5: after the merge with an existing overlay root, every file of the
\* overlay is in the destination at the same relative path with the overlay's
\* content, also where the destination held something else (overlay wins);
\* when the overlay root does not exist the merge returns false and the
\* destination is unchanged.
C5_OverlayWins ==
    MergeCalled =>
        IF Exists(pre_merge, EXTRA_DOCS_ROOT)
        THEN /\ merge_ret = "True"
             /\ \A q \in OverlayFiles(pre_merge) :
                   /\ docs_root \o q \in DOMAIN fs
                   /\ fs[docs_root \o q] = pre_merge[EXTRA_DOCS_ROOT \o q]
        ELSE /\ merge_ret = "False"
             /\ Subtree(fs, docs_root) = Subtree(pre_merge, docs_root)

C5_Witness ==
    /\ MergeCalled
    /\ \E q \in OverlayFiles(pre_merge) :
          /\ Len(q) = 2
          /\ docs_root \o q \in DOMAIN pre_merge
          /\ ~pre_merge[docs_root \o q].dir
          /\ pre_merge[docs_root \o q] # pre_merge[EXTRA_DOCS_ROOT \o q]
          /\ fs[docs_root \o q] = pre_merge[EXTRA_DOCS_ROOT \o q]

\* the directories below root that the walk reaches
WalkedDirs(t, root) ==
    {rel \in Below(t, root) :
        /\ rel = <<>> \/ t[root \o rel].dir
        /\ \A i \in 1..Len(rel) : rel[i] \notin SkippedDirs}

\* the names of the doc files of directory dir
DocNames(t, dir) ==
    {n \in Listing(t, dir) :
        /\ ~t[dir \o <<n>>].dir
        /\ \E suffix \in {".md", ".mdx"} : EndsWith(Lower(n), suffix)}

IndexedDirs(t, root) == {rel \in WalkedDirs(t, root) : DocNames(t, root \o rel) # {}}

KeyOf(rel) == IF rel = <<>> THEN "." ELSE Join("/", rel)

\* where the line of directory key starts in the index text, 0 when it has none
LineStart(text, key) ==
    LET at == Find(text, NL \o "|" \o key \o ":{")
    IN  IF at = 0 THEN 0 ELSE at + 1

\* the filenames part of the line of directory key, between commas
FilesPart(text, key) ==
    LET from  == LineStart(text, key) + Len("|" \o key \o ":{")
        rest  == SubSeq(text, from, Len(text))
        close == Find(rest, "}")
    IN  "," \o SubSeq(rest, 1, close - 1) \o ","

CountOf(text, c) == Cardinality({i \in 1..Len(text) : Ch(text, i) = c})

IndexBuilt == index_text # ""

\* C6: whatever order the directory walk returns directories and files in,
\* the index lists one line per directory that holds doc files, the lines
\* are in ascending code point order of the directory path (the root as
\* "."), and the filenames of each line are in ascending order.
C6_IndexSorted ==
    IndexBuilt =>
        LET dirs == IndexedDirs(fs, docs_root)
        IN  /\ CountOf(index_text, NL) = Cardinality(dirs)
            /\ \A d \in dirs : LineStart(index_text, KeyOf(d)) # 0
            /\ \A d1, d2 \in dirs :
                  StrLess(KeyOf(d1), KeyOf(d2)) =>
                      LineStart(index_text, KeyOf(d1)) < LineStart(index_text, KeyOf(d2))
            /\ \A d \in dirs :
                  LET part == FilesPart(index_text, KeyOf(d))
                      docs == DocNames(fs, docs_root \o d)
                  IN  /\ CountOf(part, ",") = Cardinality(docs) + 1
                      /\ \A f \in docs : Contains(part, "," \o f \o ",")
                      /\ \A f1, f2 \in docs :
                            StrLess(f1, f2) =>
                                Find(part, "," \o f1 \o ",") < Find(part, "," \o f2 \o ",")

\* an index whose first line is a directory that sorts before the root,
\* which every walk visits first
C6_Witness ==
    /\ IndexBuilt
    /\ Len(entries) >= 2
    /\ StrLess(entries[1].key, ".")
    /\ entries[2].key = "."
    /\ LineStart(index_text, entries[1].key) < LineStart(index_text, ".")

(***************************************************************************)
(* Claims about the runs of the two tools, checked under Spec.             *)
(***************************************************************************)
InDownload == pc \in {"urlopen", "extractall", "copytree"}

DestinationPopulated(t) == Exists(t, DOCS_BASE) /\ Listing(t, DOCS_BASE) # {}

\* C3: agents-md run with force=false on a destination that exists and holds
\* at least one entry fails before any download, and the destination holds
\* exactly what it held before the run.
C3_PopulatedWithoutForceFails ==
    (tool = "agents-md" /\ ~args.force /\ DestinationPopulated(fs0)) =>
        /\ pc \in {"main", "ensure_docs_dir", "failed"}
        /\ ~scratch.exists /\ archive = NoArchive
        /\ Subtree(fs, DOCS_BASE) = Subtree(fs0, DOCS_BASE)
        /\ fs = fs0

C3_Witness ==
    /\ tool = "agents-md" /\ ~args.force /\ DestinationPopulated(fs0)
    /\ version = "8.x"
    /\ pc = "failed"
    /\ exit_msg = "Docs already exist. Use --force to overwrite."

\* C4: on every exit path of the download step (success, network failure,
\* invalid archive, unexpected top-level folder) the scratch archive file
\* and the scratch extraction directory no longer exist once the step has
\* ended: scratch storage exists only while the step is running.
C4_ScratchRemoved ==
    ~(pc \in {"extractall", "copytree"}) => (~scratch.exists /\ scratch.tree = EmptyTree)

C4_Witness ==
    /\ pc = "failed"
    /\ exit_msg = "Unexpected zip structure."
    /\ archive.valid
    /\ ~scratch.exists

\* tool 1 has resolved its docs root, found it and called build_and_inject_index
IndexerReached == tool = "index" /\ (pc = "merge_extra_docs" \/ MergeCalled)

\* C9 as stated: the index builder run on its own bypasses the Version
\* Resolver, the Docs Fetcher and the Overlay Merger, so the documentation
\* tree is the same after the run as before it, whether or not a local
\* overlay directory exists.
C9_DocsTreeOnlyRead ==
    IndexerReached =>
        /\ version = None /\ ~InDownload /\ ~scratch.exists
        /\ Subtree(fs, docs_root) = Subtree(fs0, docs_root)

\* the docs root is not the overlay directory, does not lie in it, and holds
\* neither it nor the markdown file
Apart(root) ==
    /\ ~IsPrefix(root, EXTRA_DOCS_ROOT)
    /\ ~IsPrefix(EXTRA_DOCS_ROOT, root)
    /\ ~IsPrefix(root, AGENTS_PATH)

\* C9 amended: the index builder run on its own, against a documentation
\* directory that is apart from the overlay directory and from the markdown
\* file, bypasses the Version Resolver and the Docs Fetcher but not the
\* Overlay Merger.  When no local overlay directory exists the documentation
\* tree is the same after the run as before it; when one exists, each of its
\* top-level entries replaces the entry of that name in the documentation
\* tree before indexing, and the rest of the tree is the same as before.
C9_DocsTreeReadOrOverlaid ==
    (IndexerReached /\ Apart(docs_root)) =>
        /\ version = None /\ ~InDownload /\ ~scratch.exists
        /\ ~Exists(fs0, EXTRA_DOCS_ROOT) =>
              Subtree(fs, docs_root) = Subtree(fs0, docs_root)
        /\ (Exists(fs0, EXTRA_DOCS_ROOT) /\ MergeCalled) =>
              LET overlay == Subtree(fs0, EXTRA_DOCS_ROOT)
                  before  == Subtree(fs0, docs_root)
                  after   == Subtree(fs, docs_root)
                  top     == Listing(fs0, EXTRA_DOCS_ROOT)
              IN  /\ DOMAIN after = {q \in DOMAIN before : q[1] \notin top}
                                       \cup DOMAIN overlay
                  /\ \A q \in DOMAIN after :
                        after[q] = IF q[1] \in top THEN overlay[q] ELSE before[q]
        /\ (Exists(fs0, EXTRA_DOCS_ROOT) /\ ~MergeCalled) =>
              Subtree(fs, docs_root) = Subtree(fs0, docs_root)

C9_Witness ==
    /\ IndexerReached /\ Apart(docs_root)
    /\ pc = "done"
    /\ Exists(fs0, EXTRA_DOCS_ROOT)
    /\ Subtree(fs, docs_root) # Subtree(fs0, docs_root)

\* AGENTS.md as a run finds or leaves it
AgentsFile(t) == IF Exists(t, AGENTS_PATH) THEN t[AGENTS_PATH] ELSE [dir |-> FALSE, data |-> None]

ListVersionsRun == tool = "index" /\ args.list_versions

\* C10 as stated: the markdown file is written at most once per run, as the
\* last step after everything before it has succeeded: in every run that
\* ends in a fatal error and in every --list-versions run the file is byte
\* for byte what it was before the run.
C10_UntouchedUnlessAllSucceeded ==
    /\ written <= 1
    /\ written = 1 => pc = "done"
    /\ (pc = "failed" \/ ListVersionsRun) => AgentsFile(fs) = AgentsFile(fs0)

\* the merge copied an overlay entry to the path of the markdown file: the
\* docs root is the directory that holds the file and the overlay has a
\* top-level entry of its name
OverlaidMarkdown ==
    /\ MergeCalled
    /\ \E name \in Listing(pre_merge, EXTRA_DOCS_ROOT) : docs_root \o <<name>> = AGENTS_PATH

\* C10 amended: the tools write the markdown file at most once per run, as
\* the last step after everything before it has succeeded; in every
\* --list-versions run, and in every run that ends in a fatal error in which
\* the Overlay Merger has not copied an overlay entry to the path of the
\* markdown file, the file is byte for byte what it was before the run.
C10_WrittenOnceAtTheEnd ==
    /\ written <= 1
    /\ written = 1 => (pc = "done" /\ exit_msg = "" /\ updated.exc = "none"
                        /\ AgentsFile(fs) = File(updated.text))
    /\ (written = 0 /\ ~OverlaidMarkdown) => AgentsFile(fs) = AgentsFile(fs0)
    /\ (pc = "failed" \/ ListVersionsRun) => written = 0
    /\ ListVersionsRun => ~OverlaidMarkdown

C10_Witness ==
    /\ tool = "agents-md"
    /\ pc = "failed"
    /\ exit_msg = "AGENTS.md is missing index markers."
    /\ Exists(fs0, AGENTS_PATH)
    /\ AgentsFile(fs) = AgentsFile(fs0)
    /\ Subtree(fs, DOCS_BASE) # Subtree(fs0, DOCS_BASE)

=============================================================================
